---- MODULE Spec2Model ----
(***************************************************************************)
(* Model of bot_tester.py: the ChatbotClient (login, refresh_session,      *)
(* check_session_age, submit_question, poll_answer), save_checkpoint,      *)
(* run_queries and the Run / Resume / Start Over buttons of the main       *)
(* script, as one sequential program driven by a nondeterministic server.  *)
(*                                                                         *)
(* Questions are identified by their index 0..total_questions-1 in         *)
(* questions_list.  A table is modelled by its Question column; the kind   *)
(* of text in the Answer cell and the Pass/Fail cell of the row appended   *)
(* for the current question are kept in `row` until its checkpoint.        *)
(*                                                                         *)
(* Time is counted in ticks of poll_answer's `interval` (1 s); the clock   *)
(* of one poll_answer call saturates one tick above the timeout.  The 0.1 s*)
(* sleep of the fast phase is below the clock's resolution (0 ticks); one  *)
(* GET may take any number of ticks.                                       *)
(*                                                                         *)
(* Whether check_session_age finds the session older than max_age is      *)
(* left open at every first attempt of submit_question.                    *)
(*                                                                         *)
(* An exception that `except Exception` does not catch (the script runner's*)
(* stop / rerun control exceptions, KeyboardInterrupt) or an unexpected    *)
(* error outside the per-question try may end the loop at any question     *)
(* (Abort) and may also cut the finally block at its progress-bar calls    *)
(* (FinallyCut).                                                           *)
(*                                                                         *)
(* extract_data_from_response (with the answer text of run_queries) and    *)
(* analyze_sql_complexity are pure: they are operators, applied to every   *)
(* payload and text of a bounded set by ExtractSpec and ClassifySpec.  A   *)
(* payload mapping is a record with one has_<key> flag per key; a text is  *)
(* the sequence of its characters (of its pieces, for extracted fields);   *)
(* the regular expressions are matched character by character.  Latencies *)
(* are in tenths of a second.                                              *)
(*                                                                         *)
(* The bounded-concurrency mode of the orchestrator is not in this source  *)
(* file, whose run_queries is the sequential loop; PoolSpec is that mode   *)
(* as the specification describes it: a fixed pool of W workers, each      *)
(* question handed to one worker, and a completion merged into the result  *)
(* table and the processed-index set under one lock.                       *)
(***************************************************************************)
EXTENDS Integers, Sequences, FiniteSets, TLC

\* ---------------------------------------------------------------- bounds
MaxQuestions == 4       \* longest questions_list explored
MaxStaleRows == 1       \* rows beyond the checkpointed count with which Resume is explored
TimeoutTicks == 2       \* poll_answer's timeout, in clock ticks
MaxInsights == 3        \* longest insights list explored
MaxFragments == 2       \* most pieces of a SQL text explored
MaxCalls == 2           \* calls of analyze_sql_complexity on one text
MaxLogins == 6          \* login calls made on one client
MaxWorkers == 3         \* largest worker pool explored
PoolQuestions == 3      \* longest batch handed to a worker pool

\* Iterations of poll_answer's fast phase (range(30)), scaled with the timeout.
FastPolls == TimeoutTicks

\* ------------------------------------------------------ program constants
max_retries == 3        \* submit_question(max_retries=3)
RefreshEvery == 3       \* run_queries: i % 3 == 0
BackoffBase == 2        \* submit_question: time.sleep(2 * retries)

VARIABLES
    total_questions,      \* st.session_state.total_questions = len(questions_list)
    results_df,           \* st.session_state.results_df: [present, rows]
    questions_processed,  \* st.session_state.questions_processed
    processing_active,    \* st.session_state.processing_active
    pc,                   \* where the script is
    start_index,          \* run_queries' start_index
    i,                    \* run_queries' loop index
    df,                   \* run_queries' local results_df (its Question column)
    aliased,              \* df is the very object st.session_state.results_df holds
    row,                  \* the row appended for question i
    client,               \* ChatbotClient: [auth_token, header]
    last_login,           \* result of the latest login call: "none", "ok", "fail"
    session_old,          \* check_session_age found the session older than max_age
    retries,              \* submit_question's retries
    posts,                \* POSTs issued by the current submit_question call
    attempt_logins,       \* login calls made before the latest request, after the one before
    slept,                \* seconds of submit_question's latest backoff sleep
    n,                    \* poll_answer: fast-phase iterations done
    elapsed,              \* poll_answer: time.time() - start_time, saturated
    first_response_time,  \* poll_answer's first_response_time (-1: None)
    last_status,          \* status of the latest POST / GET of the current question
    ended,                \* how the latest run_queries call ended
    response_data,        \* the payload handed to the extraction of lines 480-481
    extracted,            \* what that extraction gave
    sql_query,            \* the text handed to analyze_sql_complexity
    complexity,           \* what analyze_sql_complexity returned for it, last
    calls,                \* calls of analyze_sql_complexity made with sql_query
    login_response,       \* the response to the latest login call on a client alone
    logins,               \* login calls made on that client
    granted,              \* token of its most recent successful login
    pool_n,               \* worker pool: questions of the batch (N)
    pool_w,               \* worker pool: its workers (W)
    launched,             \* worker pool: questions handed to a worker so far
    worker,               \* worker pool: each worker's [at, q, slot]
    pool_lock,            \* worker pool: holder of the lock (0: free)
    result_table,         \* worker pool: the shared result table (question indices)
    processed_index_set   \* worker pool: the shared processed-index set

programVars ==
    <<total_questions, results_df, questions_processed, processing_active, pc,
      start_index, i, df, aliased, row, client, last_login, session_old,
      retries, posts, attempt_logins, slept, n, elapsed, first_response_time,
      last_status, ended>>

vars ==
    <<programVars, response_data, extracted, sql_query, complexity, calls,
      login_response, logins, granted, pool_n, pool_w, launched, worker,
      pool_lock, result_table, processed_index_set>>

session == <<results_df, questions_processed, processing_active>>
submitVars == <<session_old, retries, posts, attempt_logins, slept>>
pollVars == <<n, elapsed, first_response_time>>
extractVars == <<response_data, extracted>>
classifyVars == <<sql_query, complexity, calls>>
loginVars == <<login_response, logins, granted>>
poolVars ==
    <<pool_n, pool_w, launched, worker, pool_lock, result_table,
      processed_index_set>>
pureVars == <<extractVars, classifyVars, loginVars, poolVars>>

\* ------------------------------------------------------------ the server
Tokens == {"t1", "t2"}

\* What the login POST can come back with: a 2xx whose X-MSTR-AuthToken header is
\* missing ("None"), empty ("") or a token; a non-2xx; a network exception.
LoginResponses ==
    [status : {"2xx"}, token : {"None", ""} \cup Tokens]
        \cup [status : {"4xx", "exc"}, token : {"None"}]

\* The submit POST: 200 with an id, 401, another HTTP error, anything else
\* raising (network exception, a body without "id").
PostResponses == {"200", "401", "500", "exc"}

\* The poll GET: 200 with answers[0].text populated ("200c"), 200 with an empty
\* text ("200e"), with a first answer without text ("200t"), with an empty
\* answers list ("200l"), without answers ("200n"); 202, 401, another HTTP
\* error, a network exception.
Get200 == {"200c", "200e", "200t", "200l", "200n"}
GetResponses == Get200 \cup {"202", "401", "500", "exc"}

\* response.status_code ("exc": the GET raised).
GetStatus(resp) == IF resp \in Get200 THEN "200" ELSE resp

\* response.json() of a 200.
GetData(resp) ==
    CASE resp = "200c" ->
           [has_answers |-> TRUE, answers |-> <<[has_text |-> TRUE, text |-> "answer"]>>]
      [] resp = "200e" ->
           [has_answers |-> TRUE, answers |-> <<[has_text |-> TRUE, text |-> ""]>>]
      [] resp = "200t" ->
           [has_answers |-> TRUE, answers |-> <<[has_text |-> FALSE, text |-> ""]>>]
      [] resp = "200l" -> [has_answers |-> TRUE, answers |-> <<>>]
      [] OTHER -> [has_answers |-> FALSE, answers |-> <<>>]

\* Ticks one GET may take.
GetTicks == 0 .. (TimeoutTicks + 1)

\* Whether extract_data_from_response / analyze_sql_complexity raise on the
\* payload poll_answer returned (a sqlQueries that is not a list, ...).
Payloads == {"wellformed", "malformed"}

\* ------------------------------------------------------------ the tables
NoDF == [present |-> FALSE, rows |-> <<>>]
SomeDF(rows) == [present |-> TRUE, rows |-> rows]

NoRow == [q |-> -1, answer |-> "", passfail |-> ""]
SuccessRow(q) == [q |-> q, answer |-> "ANSWER", passfail |-> ""]
TimeoutRow(q) == [q |-> q, answer |-> "TIMEOUT", passfail |-> "Skip"]
ErrorRow(q) == [q |-> q, answer |-> "ERROR", passfail |-> "Fail"]

Min(a, b) == IF a < b THEN a ELSE b
Tick(e, d) == Min(e + d, TimeoutTicks + 1)

\* ------------------------------------------------------------ the client
NewClient == [auth_token |-> "None", header |-> "None"]

\* LoginClient putting whatever X-MSTR-AuthToken holds into the session headers.
LoginClientHeaderAlways(c, r) ==
    IF r.status = "2xx"
    THEN [auth_token |-> r.token, header |-> r.token]
    ELSE c

\* ChatbotClient.login: the client after the call.
LoginClient(c, r) ==
    IF r.status = "2xx"
    THEN IF r.token \in Tokens
         THEN [auth_token |-> r.token, header |-> r.token]
         ELSE [c EXCEPT !.auth_token = r.token]
    ELSE c

\* LoginOk without the test of the token.
LoginOkWithoutToken(r) == r.status = "2xx"

\* ChatbotClient.login: its return value.
LoginOk(r) == r.status = "2xx" /\ r.token \in Tokens

LoginResult(r) == IF LoginOk(r) THEN "ok" ELSE "fail"

\* ChatbotClient.refresh_session: one login call; its result is returned, and
\* nothing is raised.
Refresh(r) ==
    /\ client' = LoginClient(client, r)
    /\ last_login' = LoginResult(r)

\* ------------------------------------------------- response extraction
\* Texts are sequences of pieces; "" is <<>>.

\* All sequences over S of length at most k.
SeqUpTo(S, k) == UNION {[1 .. m -> S] : m \in 0 .. k}

\* What an insights list may hold: a string, a mapping with a text, a mapping
\* without, a number.
InsightElements ==
    {[type |-> "str", has_text |-> FALSE, text |-> <<"a">>],
     [type |-> "dict", has_text |-> TRUE, text |-> <<"b">>],
     [type |-> "dict", has_text |-> FALSE, text |-> <<>>],
     [type |-> "int", has_text |-> FALSE, text |-> <<>>]}

\* What answer["insights"] may be: a string, a mapping, a number, a list.
InsightsValues ==
    {[type |-> "str", text |-> <<"s">>, items |-> <<>>],
     [type |-> "dict", text |-> <<>>, items |-> <<>>],
     [type |-> "int", text |-> <<>>, items |-> <<>>]}
        \cup {[type |-> "list", text |-> <<>>, items |-> xs] :
                 xs \in SeqUpTo(InsightElements, MaxInsights)}

NoInsights == [type |-> "none", text |-> <<>>, items |-> <<>>]

\* Each key of an answer: absent, or present with one of its values.
TextOptions ==
    {[has |-> FALSE, val |-> <<>>], [has |-> TRUE, val |-> <<"answer">>]}
SqlQueriesOptions ==
    {[has |-> FALSE, val |-> <<>>], [has |-> TRUE, val |-> <<>>],
     [has |-> TRUE, val |-> << <<"select 1">> >>]}
QueriesOptions ==
    {[has |-> FALSE, val |-> <<>>], [has |-> TRUE, val |-> <<>>],
     [has |-> TRUE, val |-> <<[has_explanation |-> FALSE, explanation |-> <<>>]>>],
     [has |-> TRUE, val |-> <<[has_explanation |-> TRUE, explanation |-> <<"why">>]>>]}
InsightsOptions ==
    {[has |-> FALSE, val |-> NoInsights]}
        \cup {[has |-> TRUE, val |-> v] : v \in InsightsValues}

Answers ==
    {[has_text |-> t.has, text |-> t.val,
      has_sqlQueries |-> s.has, sqlQueries |-> s.val,
      has_queries |-> q.has, queries |-> q.val,
      has_insights |-> ins.has, insights |-> ins.val] :
        t \in TextOptions, s \in SqlQueriesOptions, q \in QueriesOptions,
        ins \in InsightsOptions}

\* The payloads: no answers key, an empty answers list, one answer.
NoPayload == [has_answers |-> FALSE, answers |-> <<>>]
ResponsePayloads ==
    {NoPayload, [has_answers |-> TRUE, answers |-> <<>>]}
        \cup {[has_answers |-> TRUE, answers |-> <<a>>] : a \in Answers}

\* An expression's outcome: a value, or an exception (a KeyError).
Returned(v) == [raised |-> FALSE, value |-> v]
Raised == [raised |-> TRUE, value |-> <<>>]

\* Line 480.
NoAnswerProvided == <<"No answer provided">>
answer_text(result) ==
    IF result.has_answers /\ Len(result.answers) > 0
    THEN IF result.answers[1].has_text
         THEN Returned(result.answers[1].text)
         ELSE Raised
    ELSE Returned(NoAnswerProvided)

\* Lines 292-293.
SqlOf(answer) ==
    IF answer.has_sqlQueries /\ Len(answer.sqlQueries) > 0
    THEN Returned(answer.sqlQueries[1])
    ELSE Returned(<<>>)

\* InterpretationOf reading query["explanation"] without the test of line 298.
InterpretationUnguarded(answer) ==
    IF answer.has_queries /\ Len(answer.queries) > 0
    THEN IF answer.queries[1].has_explanation
         THEN Returned(answer.queries[1].explanation)
         ELSE Raised
    ELSE Returned(<<>>)

\* Lines 296-299.
InterpretationOf(answer) ==
    IF answer.has_queries /\ Len(answer.queries) > 0
    THEN IF answer.queries[1].has_explanation
         THEN Returned(answer.queries[1].explanation)
         ELSE Returned(<<>>)
    ELSE Returned(<<>>)

\* InsightText taking the string elements only.
InsightTextStringsOnly(acc, insight) ==
    IF insight.type = "str" THEN Append(acc, insight.text) ELSE acc

\* Lines 310-313: one iteration of the for loop over the insights list.
InsightText(acc, insight) ==
    IF insight.type = "str"
    THEN Append(acc, insight.text)
    ELSE IF insight.type = "dict" /\ insight.has_text
         THEN Append(acc, insight.text)
         ELSE acc

\* Lines 308-313: insights_texts after the elements from the k-th on.
RECURSIVE InsightsTexts(_, _, _)
InsightsTexts(items, k, acc) ==
    IF k > Len(items)
    THEN acc
    ELSE InsightsTexts(items, k + 1, InsightText(acc, items[k]))

\* Line 314: sep.join(texts).
RECURSIVE Join(_, _)
Join(sep, texts) ==
    IF Len(texts) = 0 THEN <<>>
    ELSE IF Len(texts) = 1 THEN texts[1]
    ELSE texts[1] \o <<sep>> \o Join(sep, Tail(texts))

\* Lines 302-314.
InsightsOf(answer) ==
    IF answer.has_insights
    THEN IF answer.insights.type = "str"
         THEN Returned(answer.insights.text)
         ELSE IF answer.insights.type = "list" /\ Len(answer.insights.items) > 0
              THEN Returned(Join("\n", InsightsTexts(answer.insights.items, 1, <<>>)))
              ELSE Returned(<<>>)
    ELSE Returned(<<>>)

\* Lines 279-316.
extract_data_from_response(data) ==
    IF data.has_answers /\ Len(data.answers) > 0
    THEN LET answer == data.answers[1]
             sql == SqlOf(answer)
             interpretation == InterpretationOf(answer)
             insights == InsightsOf(answer)
         IN  [raised |-> sql.raised \/ interpretation.raised \/ insights.raised,
              interpretation |-> interpretation.value,
              sql |-> sql.value,
              insights |-> insights.value]
    ELSE [raised |-> FALSE, interpretation |-> <<>>, sql |-> <<>>,
          insights |-> <<>>]

NotExtracted ==
    [done |-> FALSE, raised |-> FALSE, answer_text |-> <<>>,
     interpretation |-> <<>>, sql |-> <<>>, insights |-> <<>>]

\* Lines 480-481 on a payload: what the two statements leave, or that one of
\* them raised.
Extraction(result) ==
    LET text == answer_text(result)
        data == extract_data_from_response(result)
    IN  IF text.raised \/ data.raised
        THEN [NotExtracted EXCEPT !.done = TRUE, !.raised = TRUE]
        ELSE [done |-> TRUE, raised |-> FALSE, answer_text |-> text.value,
              interpretation |-> data.interpretation, sql |-> data.sql,
              insights |-> data.insights]

\* ---------------------------------------------- analyze_sql_complexity
\* A text is the sequence of its characters.
UpperCase ==
    <<"A", "B", "C", "D", "E", "F", "G", "H", "I", "J", "K", "L", "M",
      "N", "O", "P", "Q", "R", "S", "T", "U", "V", "W", "X", "Y", "Z">>
LowerCase ==
    <<"a", "b", "c", "d", "e", "f", "g", "h", "i", "j", "k", "l", "m",
      "n", "o", "p", "q", "r", "s", "t", "u", "v", "w", "x", "y", "z">>

\* str.lower without the conversion.
NotLowered(s) == s

\* Line 78: str.lower.
lower(s) ==
    [k \in 1 .. Len(s) |->
        IF \E j \in 1 .. Len(UpperCase) : UpperCase[j] = s[k]
        THEN LowerCase[CHOOSE j \in 1 .. Len(UpperCase) : UpperCase[j] = s[k]]
        ELSE s[k]]

\* The whitespace of str.strip and of \s, and what . matches.
IsSpace(c) == c \in {" ", "\t", "\n", "\r"}
IsDot(c) == c # "\n"

\* Line 74: str.strip.
strip(s) ==
    LET kept == {k \in 1 .. Len(s) : ~IsSpace(s[k])}
    IN  IF kept = {}
        THEN <<>>
        ELSE SubSeq(s, CHOOSE k \in kept : \A j \in kept : k <= j,
                       CHOOSE k \in kept : \A j \in kept : k >= j)

\* The pieces of the regular expressions used: a literal, \s, \s+, ., .+, .*
Lit(w) == [kind |-> "lit", w |-> w]
S1 == [kind |-> "\\s", w |-> <<>>]
SP == [kind |-> "\\s+", w |-> <<>>]
D1 == [kind |-> ".", w |-> <<>>]
DP == [kind |-> ".+", w |-> <<>>]
DS == [kind |-> ".*", w |-> <<>>]

\* s[a .. b-1] holds characters of one class only.
AllSpace(s, a, b) == \A j \in a .. (b - 1) : IsSpace(s[j])
AllDot(s, a, b) == \A j \in a .. (b - 1) : IsDot(s[j])

\* re.match of the pieces items[k ..] at position p of s.
RECURSIVE MatchAt(_, _, _, _)
MatchAt(s, p, items, k) ==
    IF k > Len(items)
    THEN TRUE
    ELSE LET it == items[k] IN
         CASE it.kind = "lit" ->
                /\ p + Len(it.w) - 1 <= Len(s)
                /\ \A j \in 1 .. Len(it.w) : s[p + j - 1] = it.w[j]
                /\ MatchAt(s, p + Len(it.w), items, k + 1)
           [] it.kind = "\\s" ->
                p <= Len(s) /\ IsSpace(s[p]) /\ MatchAt(s, p + 1, items, k + 1)
           [] it.kind = "." ->
                p <= Len(s) /\ IsDot(s[p]) /\ MatchAt(s, p + 1, items, k + 1)
           [] it.kind = "\\s+" ->
                \E e \in (p + 1) .. (Len(s) + 1) :
                    AllSpace(s, p, e) /\ MatchAt(s, e, items, k + 1)
           [] it.kind = ".+" ->
                \E e \in (p + 1) .. (Len(s) + 1) :
                    AllDot(s, p, e) /\ MatchAt(s, e, items, k + 1)
           [] it.kind = ".*" ->
                \E e \in p .. (Len(s) + 1) :
                    AllDot(s, p, e) /\ MatchAt(s, e, items, k + 1)

\* re.search(pattern, s): a pattern is the sequence of its alternatives.
search(pattern, s) ==
    \E a \in 1 .. Len(pattern), p \in 1 .. (Len(s) + 1) :
        MatchAt(s, p, pattern[a], 1)

w_with == <<"w", "i", "t", "h">>
w_as == <<"a", "s">>
w_over == <<"o", "v", "e", "r">>
w_select == <<"s", "e", "l", "e", "c", "t">>
w_from == <<"f", "r", "o", "m">>
w_join == <<"j", "o", "i", "n">>
w_case == <<"c", "a", "s", "e">>
w_when == <<"w", "h", "e", "n">>
w_union == <<"u", "n", "i", "o", "n">>
w_intersect == <<"i", "n", "t", "e", "r", "s", "e", "c", "t">>
w_except == <<"e", "x", "c", "e", "p", "t">>
w_group == <<"g", "r", "o", "u", "p">>
w_by == <<"b", "y">>
w_having == <<"h", "a", "v", "i", "n", "g">>
w_order == <<"o", "r", "d", "e", "r">>
w_distinct == <<"d", "i", "s", "t", "i", "n", "c", "t">>
w_where == <<"w", "h", "e", "r", "e">>
w_limit == <<"l", "i", "m", "i", "t">>
w_sum == <<"s", "u", "m", "(">>
w_avg == <<"a", "v", "g", "(">>
w_count == <<"c", "o", "u", "n", "t", "(">>
w_max == <<"m", "a", "x", "(">>
w_min == <<"m", "i", "n", "(">>
w_paren == <<"(">>

\* Lines 81-88.
very_complex_patterns ==
    << << <<Lit(w_with), SP, D1, SP, Lit(w_as)>> >>,
       << <<Lit(w_over), S1, Lit(w_paren)>> >>,
       << <<Lit(w_select), DP, Lit(w_from), DP, SP, Lit(w_select)>> >>,
       << <<Lit(w_join), DS, Lit(w_join), DS, Lit(w_join)>> >>,
       << <<Lit(w_case), SP, Lit(w_when), DS, Lit(w_case), SP, Lit(w_when)>> >>,
       << <<Lit(w_union)>>, <<Lit(w_intersect)>>, <<Lit(w_except)>> >> >>

\* Lines 91-98.
complex_patterns ==
    << << <<Lit(w_join)>> >>,
       << <<Lit(w_group), SP, Lit(w_by)>> >>,
       << <<Lit(w_having)>> >>,
       << <<Lit(w_order), SP, Lit(w_by), DS, Lit(w_order), SP, Lit(w_by)>> >>,
       << <<Lit(w_distinct)>> >>,
       << <<Lit(w_sum)>>, <<Lit(w_avg)>>, <<Lit(w_count)>>, <<Lit(w_max)>>,
          <<Lit(w_min)>> >> >>

\* Lines 101-106.
simple_patterns ==
    << << <<Lit(w_where)>> >>,
       << <<Lit(w_order), SP, Lit(w_by)>> >>,
       << <<Lit(w_limit)>> >>,
       << <<Lit(w_select), DS, Lit(w_from)>> >> >>

\* Lines 109-111, 114-116, 121-123: the for loop over a list of patterns, from
\* the k-th on, finds a match.
RECURSIVE AnyFrom(_, _, _)
AnyFrom(patterns, s, k) ==
    IF k > Len(patterns)
    THEN FALSE
    ELSE IF search(patterns[k], s) THEN TRUE ELSE AnyFrom(patterns, s, k + 1)

\* The latency is in tenths of a second.
NoSql == [latency |-> 5, label |-> "No SQL"]
SimpleSql == [latency |-> 30, label |-> "Simple SQL"]
ComplexSql == [latency |-> 50, label |-> "Complex SQL"]
VeryComplexSql == [latency |-> 80, label |-> "Very Complex SQL"]
NotClassified == [latency |-> 0, label |-> "none"]

\* analyze_sql_complexity looking for the complex patterns first.
analyze_sql_complexity_complex_first(sql) ==
    IF Len(sql) = 0 \/ Len(strip(sql)) < 10
    THEN NoSql
    ELSE LET sql_lower == lower(sql) IN
         IF AnyFrom(complex_patterns, sql_lower, 1) THEN ComplexSql
         ELSE IF AnyFrom(very_complex_patterns, sql_lower, 1) THEN VeryComplexSql
         ELSE IF AnyFrom(simple_patterns, sql_lower, 1) THEN SimpleSql
         ELSE SimpleSql

\* Lines 63-125.
analyze_sql_complexity(sql) ==
    IF Len(sql) = 0 \/ Len(strip(sql)) < 10
    THEN NoSql
    ELSE LET sql_lower == lower(sql) IN
         IF AnyFrom(very_complex_patterns, sql_lower, 1) THEN VeryComplexSql
         ELSE IF AnyFrom(complex_patterns, sql_lower, 1) THEN ComplexSql
         ELSE IF AnyFrom(simple_patterns, sql_lower, 1) THEN SimpleSql
         ELSE SimpleSql

\* The texts of the pinned values.
\* SELECT * FROM t WHERE x=1
PinnedSimple ==
    <<"S", "E", "L", "E", "C", "T", " ", "*", " ", "F", "R", "O", "M", " ",
      "t", " ", "W", "H", "E", "R", "E", " ", "x", "=", "1">>
\* SELECT a, SUM(b) FROM t JOIN u ON ... GROUP BY a
PinnedComplex ==
    <<"S", "E", "L", "E", "C", "T", " ", "a", ",", " ", "S", "U", "M", "(",
      "b", ")", " ", "F", "R", "O", "M", " ", "t", " ", "J", "O", "I", "N",
      " ", "u", " ", "O", "N", " ", ".", ".", ".", " ", "G", "R", "O", "U",
      "P", " ", "B", "Y", " ", "a">>
\* WITH c AS (SELECT ...) SELECT * FROM c
PinnedVeryComplex ==
    <<"W", "I", "T", "H", " ", "c", " ", "A", "S", " ", "(", "S", "E", "L",
      "E", "C", "T", " ", ".", ".", ".", ")", " ", "S", "E", "L", "E", "C",
      "T", " ", "*", " ", "F", "R", "O", "M", " ", "c">>
PinnedTexts == {PinnedSimple, PinnedComplex, PinnedVeryComplex}

\* Pieces of SQL text, and the texts made of at most MaxFragments of them,
\* one space between two pieces.
SqlPieces ==
    {<<"s", "e", "l", "e", "c", "t", " ", "*", " ", "f", "r", "o", "m", " ", "t">>,
     <<"W", "H", "E", "R", "E", " ", "x", "=", "1">>,
     <<"J", "O", "I", "N", " ", "u", " ", "O", "N", " ", "k">>,
     <<"g", "r", "o", "u", "p", " ", "b", "y", " ", "a">>,
     <<"u", "n", "i", "o", "n">>,
     <<"w", "i", "t", "h", " ", "c", " ", "a", "s">>,
     <<"w", "i", "t", "h", " ", "c", "t", "e", " ", "a", "s">>,
     <<"o", "v", "e", "r", " ", "(">>,
     <<"S", "u", "m", "(", "b", ")">>,
     <<" ">>,
     <<"o", "r", "d", "e", "r", " ", " ", "b", "y", " ", "a">>,
     <<"x", "\n", "l", "i", "m", "i", "t", " ", "5">>}

SqlTexts == {Join(" ", ps) : ps \in SeqUpTo(SqlPieces, MaxFragments)}

\* ----------------------------------------------------------------- Init
\* The script's state before any button is pressed.
ProgramInit ==
    /\ total_questions \in 1 .. MaxQuestions
    /\ results_df = NoDF
    /\ questions_processed = 0
    /\ processing_active = FALSE
    /\ pc = "idle"
    /\ start_index = 0
    /\ i = 0
    /\ df = <<>>
    /\ aliased = FALSE
    /\ row = NoRow
    /\ client = NewClient
    /\ last_login = "none"
    /\ session_old = FALSE
    /\ retries = 0
    /\ posts = 0
    /\ attempt_logins = 0
    /\ slept = 0
    /\ n = 0
    /\ elapsed = 0
    /\ first_response_time = -1
    /\ last_status = "none"
    /\ ended = "none"

\* No extraction and no classification is under way.
ExtractIdle == response_data = NoPayload /\ extracted = NotExtracted
ClassifyIdle == sql_query = <<>> /\ complexity = NotClassified /\ calls = 0

\* No client is exercised alone.
NoResponse == [status |-> "none", token |-> "None"]
LoginIdle == login_response = NoResponse /\ logins = 0 /\ granted = "None"

\* No worker pool.
IdleWorker == [at |-> "idle", q |-> -1, slot |-> 0]
PoolIdle ==
    /\ pool_n = 0
    /\ pool_w = 0
    /\ launched = 0
    /\ worker = [w \in 1 .. MaxWorkers |-> IdleWorker]
    /\ pool_lock = 0
    /\ result_table = <<>>
    /\ processed_index_set = {}

Init == ProgramInit /\ ExtractIdle /\ ClassifyIdle /\ LoginIdle /\ PoolIdle

ResetSubmit ==
    /\ session_old' = FALSE
    /\ retries' = 0
    /\ posts' = 0
    /\ attempt_logins' = 0
    /\ slept' = 0

ResetPoll ==
    /\ n' = 0
    /\ elapsed' = 0
    /\ first_response_time' = -1

\* results_df.loc[len(results_df)] = [...]: st.session_state.results_df gets the
\* row too when df is that very object.
AppendRow(r) ==
    /\ row' = r
    /\ df' = Append(df, r.q)
    /\ results_df' = IF aliased THEN SomeDF(Append(df, r.q)) ELSE results_df

\* ------------------------------------------------------ run_queries: start
ResumeOffered ==
    questions_processed > 0 /\ questions_processed < total_questions

\* StartRun with processing_active set before the login instead of after it.
StartRunActiveBeforeLogin(start, r) ==
    /\ pc = "idle"
    /\ ~processing_active
    /\ start_index' = start
    /\ i' = start
    /\ IF results_df.present /\ start > 0
       THEN df' = results_df.rows /\ aliased' = TRUE
       ELSE df' = <<>> /\ aliased' = FALSE
    /\ client' = LoginClient(NewClient, r)
    /\ last_login' = LoginResult(r)
    /\ processing_active' = TRUE
    /\ IF LoginOk(r)
       THEN /\ pc' = "loop"
            /\ ended' = "none"
       ELSE /\ pc' = "idle"
            /\ ended' = "login_failed"
    /\ UNCHANGED <<total_questions, results_df, questions_processed, row,
                   submitVars, pollVars, last_status>>
    /\ UNCHANGED pureVars

\* Lines 386-449: the table, a new client, the first login.
StartRun(start, r) ==
    /\ pc = "idle"
    /\ ~processing_active
    /\ start_index' = start
    /\ i' = start
    /\ IF results_df.present /\ start > 0
       THEN df' = results_df.rows /\ aliased' = TRUE
       ELSE df' = <<>> /\ aliased' = FALSE
    /\ client' = LoginClient(NewClient, r)
    /\ last_login' = LoginResult(r)
    /\ IF LoginOk(r)
       THEN /\ processing_active' = TRUE
            /\ pc' = "loop"
            /\ ended' = "none"
       ELSE /\ processing_active' = processing_active
            /\ pc' = "idle"
            /\ ended' = "login_failed"
    /\ UNCHANGED <<total_questions, results_df, questions_processed, row,
                   submitVars, pollVars, last_status>>
    /\ UNCHANGED pureVars

\* Lines 687-695: Run Queries.
RunButton == \E r \in LoginResponses : ~ResumeOffered /\ StartRun(0, r)

\* Lines 670-680: Resume Processing.
ResumeButton ==
    \E r \in LoginResponses :
        /\ ResumeOffered
        /\ Len(results_df.rows) <= questions_processed + MaxStaleRows
        /\ StartRun(questions_processed, r)

\* Lines 682-686: Start Over.
RestartButton ==
    /\ pc = "idle"
    /\ ~processing_active
    /\ ResumeOffered
    /\ questions_processed' = 0
    /\ results_df' = NoDF
    /\ UNCHANGED <<total_questions, processing_active, pc, start_index, i, df,
                   aliased, row, client, last_login, submitVars, pollVars,
                   last_status, ended>>
    /\ UNCHANGED pureVars

\* -------------------------------------------------- run_queries: the loop
InLoop == pc \in {"loop", "submit", "submitted", "fast", "steady", "save"}

\* Lines 465-470: the periodic refresh.
PeriodicRefreshDue == i > start_index /\ i % RefreshEvery = 0

\* Lines 453-470: the next question, or the end of the for loop.
LoopTop ==
    /\ pc = "loop"
    /\ IF i < total_questions
       THEN /\ IF PeriodicRefreshDue
               THEN \E r \in LoginResponses : Refresh(r)
               ELSE UNCHANGED <<client, last_login>>
            /\ pc' = "submit"
            /\ ended' = ended
       ELSE /\ pc' = "finally"
            /\ ended' = "normal"
            /\ UNCHANGED <<client, last_login>>
    /\ UNCHANGED <<total_questions, session, start_index, i, df, aliased, row,
                   submitVars, pollVars, last_status>>
    /\ UNCHANGED pureVars

\* RecordTimeout that skips the question instead of recording it.
RecordTimeoutNoRow ==
    /\ \E r \in LoginResponses : Refresh(r)
    /\ pc' = "save"
    /\ UNCHANGED <<df, results_df, row>>

\* RecordTimeout as it would be were TimeoutError caught by the generic handler.
RecordTimeoutAsError ==
    /\ AppendRow(ErrorRow(i))
    /\ \E r \in LoginResponses : Refresh(r)
    /\ pc' = "save"

\* Lines 511-535: except TimeoutError: the timeout row, then a refresh.
RecordTimeout ==
    /\ AppendRow(TimeoutRow(i))
    /\ \E r \in LoginResponses : Refresh(r)
    /\ pc' = "save"

\* RecordError that records nothing for the failed question.
RecordErrorNoRow(c) ==
    /\ \E r \in LoginResponses :
         /\ client' = LoginClient(c, r)
         /\ last_login' = LoginResult(r)
    /\ pc' = "save"
    /\ UNCHANGED <<df, results_df, row>>

\* Lines 537-563: except Exception: the error row, then a refresh; c is the
\* client as the failed call left it.
RecordError(c) ==
    /\ AppendRow(ErrorRow(i))
    /\ \E r \in LoginResponses :
         /\ client' = LoginClient(c, r)
         /\ last_login' = LoginResult(r)
    /\ pc' = "save"

\* Lines 479-509: extraction, classification and the success row; an exception
\* raised by them is handled as any other.
RecordAnswer(payload) ==
    IF payload = "wellformed"
    THEN /\ AppendRow(SuccessRow(i))
         /\ pc' = "save"
         /\ UNCHANGED <<client, last_login>>
    ELSE RecordError(client)

\* ------------------------------------------------------- submit_question
\* ChecksAge were every attempt to ask check_session_age.
ChecksAgeOnRetryToo(failures) == TRUE

\* Line 200: a retry always refreshes; the first attempt asks check_session_age.
ChecksAge(failures) == failures = 0

\* FailuresAfter with a first-attempt 401 not counted as a retry.
FailuresAfterFree401(failures, resp) ==
    IF failures = 0 /\ resp = "401" THEN failures ELSE failures + 1

\* Lines 208, 216: retries += 1 after a failed attempt, whatever its status.
FailuresAfter(failures, resp) == failures + 1

\* RetryAllowed with one retry too many.
RetryAllowedOffByOne(failures) == failures <= max_retries + 1

\* Lines 210, 218: whether a failed attempt is followed by another.
RetryAllowed(failures) == failures <= max_retries

\* Lines 211, 219: the backoff before the next attempt.
Backoff(failures) == BackoffBase * failures

\* Post as it would be were a failed refresh_session to raise inside the try of
\* line 197: the attempt fails without its POST.
PostSkippedAfterFailedLogin(c, l) ==
    IF l = "fail"
    THEN /\ posts' = posts
         /\ last_status' = last_status
         /\ retries' = retries + 1
         /\ IF RetryAllowed(retries + 1)
            THEN /\ slept' = Backoff(retries + 1)
                 /\ client' = c
                 /\ last_login' = l
                 /\ pc' = "submit"
                 /\ UNCHANGED <<df, results_df, row>>
            ELSE /\ slept' = slept
                 /\ RecordError(c)
    ELSE \E resp \in PostResponses :
             /\ posts' = posts + 1
             /\ last_status' = resp
             /\ IF resp = "200"
                THEN /\ client' = c
                     /\ last_login' = l
                     /\ retries' = retries
                     /\ pc' = "submitted"
                     /\ UNCHANGED <<df, results_df, row>>
                     /\ slept' = slept
                ELSE /\ retries' = FailuresAfter(retries, resp)
                     /\ IF RetryAllowed(FailuresAfter(retries, resp))
                        THEN /\ slept' = Backoff(FailuresAfter(retries, resp))
                             /\ client' = c
                             /\ last_login' = l
                             /\ pc' = "submit"
                             /\ UNCHANGED <<df, results_df, row>>
                        ELSE /\ slept' = slept
                             /\ RecordError(c)

\* Lines 203-222: the POST and what follows it, the logins of line 200-201
\* having left the client c and the login result l.
Post(c, l) ==
    \E resp \in PostResponses :
        /\ posts' = posts + 1
        /\ last_status' = resp
        /\ IF resp = "200"
           THEN /\ client' = c
                /\ last_login' = l
                /\ retries' = retries
                /\ pc' = "submitted"
                /\ UNCHANGED <<df, results_df, row>>
                /\ slept' = slept
           ELSE /\ retries' = FailuresAfter(retries, resp)
                /\ IF RetryAllowed(FailuresAfter(retries, resp))
                   THEN /\ slept' = Backoff(FailuresAfter(retries, resp))
                        /\ client' = c
                        /\ last_login' = l
                        /\ pc' = "submit"
                        /\ UNCHANGED <<df, results_df, row>>
                   ELSE /\ slept' = slept
                        /\ RecordError(c)

\* Lines 197-222: one iteration of submit_question's while loop.
SubmitAttempt ==
    /\ pc = "submit"
    /\ \/ /\ ~ChecksAge(retries)
          /\ session_old' = session_old
          /\ attempt_logins' = 1
          /\ \E r \in LoginResponses : Post(LoginClient(client, r), LoginResult(r))
       \/ /\ ChecksAge(retries)
          /\ session_old' = FALSE
          /\ attempt_logins' = 0
          /\ Post(client, last_login)
       \/ /\ ChecksAge(retries)
          /\ session_old' = TRUE
          /\ \E r1 \in LoginResponses :
               IF LoginOk(r1)
               THEN /\ attempt_logins' = 1
                    /\ Post(LoginClient(client, r1), LoginResult(r1))
               ELSE /\ attempt_logins' = 2
                    /\ \E r2 \in LoginResponses :
                         Post(LoginClient(LoginClient(client, r1), r2),
                              LoginResult(r2))
    /\ UNCHANGED <<total_questions, questions_processed, processing_active,
                   start_index, i, aliased, pollVars, ended>>
    /\ UNCHANGED pureVars

\* ----------------------------------------------------------- poll_answer
\* Line 237: the fast phase gives up once the timeout is exceeded.
FastTimedOut(e) == e > TimeoutTicks

\* SteadyContinues without the timeout.
SteadyNeverTimesOut(e) == TRUE

\* Line 257: the steady phase goes on while the timeout is not reached.
SteadyContinues(e) == e < TimeoutTicks

\* Line 244: the status that ends the fast phase.
FirstResponse(resp) == GetStatus(resp) = "200"

\* HasAnswerText without the test of the text.
HasAnswers(data) == data.has_answers /\ Len(data.answers) > 0

\* Lines 263-265: the body holds a first answer with a non-empty text.
HasAnswerText(data) ==
    /\ data.has_answers
    /\ Len(data.answers) > 0
    /\ data.answers[1].has_text
    /\ data.answers[1].text # ""

\* Lines 260-265: the response that completes the answer.
Complete(resp) == GetStatus(resp) = "200" /\ HasAnswerText(GetData(resp))

\* EscapesPollLoop were raise_for_status called outside the try.
EscapesOnHttpError(resp) == resp \in {"401", "500"}

\* Lines 269-273: what raise_for_status raises on a status other than 200 and
\* 202 is caught by the except of line 271, as is any exception of the GET:
\* no response makes poll_answer raise.
EscapesPollLoop(resp) == FALSE

\* ExhaustedFirstResponse leaving first_response_time at None.
ExhaustedFirstResponseUnset(e) == -1

\* Lines 253-254: first_response_time when the fast phase saw no 200: the time
\* elapsed so far.
ExhaustedFirstResponse(e) == e

\* AfterInterval without the sleep.
AfterIntervalNoSleep(e) == e

\* Line 275: the clock after the steady phase's sleep(interval).
AfterInterval(e) == Tick(e, 1)

\* Lines 477, 231-233: submit_question has returned the id; poll_answer starts.
PollStart ==
    /\ pc = "submitted"
    /\ pc' = "fast"
    /\ ResetSubmit
    /\ ResetPoll
    /\ last_status' = "none"
    /\ UNCHANGED <<total_questions, session, start_index, i, df, aliased, row,
                   client, last_login, ended>>
    /\ UNCHANGED pureVars

\* Lines 236-254: one iteration of the fast phase; on its last iteration without
\* a 200, first_response_time becomes the time elapsed so far.
PollFast ==
    /\ pc = "fast"
    /\ IF FastTimedOut(elapsed)
       THEN /\ RecordTimeout
            /\ UNCHANGED <<pollVars, last_status>>
       ELSE /\ \E resp \in GetResponses, d \in GetTicks :
                 /\ last_status' = resp
                 /\ elapsed' = Tick(elapsed, d)
                 /\ IF FirstResponse(resp)
                    THEN /\ first_response_time' = Tick(elapsed, d)
                         /\ n' = n
                         /\ pc' = "steady"
                    ELSE /\ n' = n + 1
                         /\ IF n + 1 < FastPolls
                            THEN /\ first_response_time' = first_response_time
                                 /\ pc' = "fast"
                            ELSE /\ first_response_time' =
                                      ExhaustedFirstResponse(Tick(elapsed, d))
                                 /\ pc' = "steady"
            /\ UNCHANGED <<df, results_df, row, client, last_login>>
    /\ UNCHANGED <<total_questions, questions_processed, processing_active,
                   start_index, i, aliased, submitVars, ended>>
    /\ UNCHANGED pureVars

\* Lines 257-277: one iteration of the steady phase, or the TimeoutError after
\* it; a complete answer returns to run_queries, which records it.
PollSteady ==
    /\ pc = "steady"
    /\ IF ~SteadyContinues(elapsed)
       THEN /\ RecordTimeout
            /\ UNCHANGED <<elapsed, last_status>>
       ELSE \E resp \in GetResponses, d \in GetTicks :
                 /\ last_status' = resp
                 /\ IF Complete(resp)
                    THEN /\ elapsed' = Tick(elapsed, d)
                         /\ \E payload \in Payloads : RecordAnswer(payload)
                    ELSE IF EscapesPollLoop(resp)
                    THEN /\ elapsed' = Tick(elapsed, d)
                         /\ RecordError(client)
                    ELSE /\ elapsed' = AfterInterval(Tick(elapsed, d))
                         /\ pc' = "steady"
                         /\ UNCHANGED <<df, results_df, row, client, last_login>>
    /\ UNCHANGED <<total_questions, questions_processed, processing_active,
                   start_index, i, aliased, submitVars, n, first_response_time,
                   ended>>
    /\ UNCHANGED pureVars

\* ---------------------------------------------------------- checkpoints
\* Lines 379-381: save_checkpoint(progress_idx, df) stores a copy of df.
save_checkpoint(progress_idx, rows) ==
    /\ questions_processed' = progress_idx
    /\ results_df' = SomeDF(rows)
    /\ aliased' = FALSE

\* Lines 565-588: the checkpoint after a question, the download button, the
\* delay, and on to the next index.
SaveCheckpoint ==
    /\ pc = "save"
    /\ save_checkpoint(i + 1, df)
    /\ i' = i + 1
    /\ pc' = "loop"
    /\ row' = NoRow
    /\ ResetSubmit
    /\ ResetPoll
    /\ last_status' = "none"
    /\ UNCHANGED <<total_questions, processing_active, start_index, df, client,
                   last_login, ended>>
    /\ UNCHANGED pureVars

\* An exception leaves the for loop: lines 590-593 report it when it is an
\* Exception; in every case the finally block is next.
Abort ==
    /\ InLoop
    /\ pc' = "finally"
    /\ ended' = "aborted"
    /\ row' = NoRow
    /\ ResetSubmit
    /\ ResetPoll
    /\ last_status' = "none"
    /\ UNCHANGED <<total_questions, session, start_index, i, df, aliased, client,
                   last_login>>
    /\ UNCHANGED pureVars

\* Finally writing start_index as the final count.
FinallySavesStart ==
    /\ pc = "finally"
    /\ processing_active' = FALSE
    /\ save_checkpoint(start_index, df)
    /\ pc' = "idle"
    /\ client' = NewClient
    /\ last_login' = "none"
    /\ UNCHANGED <<total_questions, start_index, i, df, row, submitVars, pollVars,
                   last_status, ended>>
    /\ UNCHANGED pureVars

\* Lines 595-606: the finally block and the return; the client is dropped.
Finally ==
    /\ pc = "finally"
    /\ processing_active' = FALSE
    /\ save_checkpoint(total_questions, df)
    /\ pc' = "idle"
    /\ client' = NewClient
    /\ last_login' = "none"
    /\ UNCHANGED <<total_questions, start_index, i, df, row, submitVars, pollVars,
                   last_status, ended>>
    /\ UNCHANGED pureVars

\* FinallyCut with the cut before the flag is reset.
FinallyCutStillActive ==
    /\ pc = "finally"
    /\ processing_active' = processing_active
    /\ pc' = "idle"
    /\ ended' = "aborted"
    /\ client' = NewClient
    /\ last_login' = "none"
    /\ UNCHANGED <<total_questions, results_df, questions_processed, start_index,
                   i, df, aliased, row, submitVars, pollVars, last_status>>
    /\ UNCHANGED pureVars

\* Lines 595-600: the finally block cut at progress_bar.progress(100).
FinallyCut ==
    /\ pc = "finally"
    /\ processing_active' = FALSE
    /\ pc' = "idle"
    /\ ended' = "aborted"
    /\ client' = NewClient
    /\ last_login' = "none"
    /\ UNCHANGED <<total_questions, results_df, questions_processed, start_index,
                   i, df, aliased, row, submitVars, pollVars, last_status>>
    /\ UNCHANGED pureVars

Next ==
    \/ RunButton
    \/ ResumeButton
    \/ RestartButton
    \/ LoopTop
    \/ SubmitAttempt
    \/ PollStart
    \/ PollFast
    \/ PollSteady
    \/ SaveCheckpoint
    \/ Abort
    \/ Finally
    \/ FinallyCut

Spec == Init /\ [][Next]_vars

\* The script keeps running once started: every step of run_queries that is
\* enabled is eventually taken.  No exception leaves the loop here.
Progress ==
    \/ LoopTop
    \/ SubmitAttempt
    \/ PollStart
    \/ PollFast
    \/ PollSteady
    \/ SaveCheckpoint
    \/ Finally

LiveNext == RunButton \/ Progress

LiveSpec == Init /\ [][LiveNext]_vars /\ WF_vars(Progress)

\* ------------------------------------------- the pure functions, alone
\* Lines 480-481 applied to any payload.
ExtractInit ==
    /\ ProgramInit
    /\ total_questions = 1
    /\ response_data \in ResponsePayloads
    /\ extracted = NotExtracted
    /\ ClassifyIdle
    /\ LoginIdle
    /\ PoolIdle

ExtractAnswer ==
    /\ ~extracted.done
    /\ extracted' = Extraction(response_data)
    /\ UNCHANGED <<programVars, response_data, classifyVars, loginVars, poolVars>>

ExtractNext == ExtractAnswer

ExtractSpec == ExtractInit /\ [][ExtractNext]_vars

\* Line 484 applied to any text, more than once.
ClassifyInit ==
    /\ ProgramInit
    /\ total_questions = 1
    /\ ExtractIdle
    /\ sql_query \in SqlTexts \cup PinnedTexts
    /\ complexity = NotClassified
    /\ calls = 0
    /\ LoginIdle
    /\ PoolIdle

Classify ==
    /\ calls < MaxCalls
    /\ calls' = calls + 1
    /\ complexity' = analyze_sql_complexity(sql_query)
    /\ UNCHANGED <<programVars, extractVars, sql_query, loginVars, poolVars>>

ClassifyNext == Classify

ClassifySpec == ClassifyInit /\ [][ClassifyNext]_vars

\* A ChatbotClient alone: login, refresh_session and check_session_age's
\* refresh are each one login call, in any number and with any response.
LoginInit ==
    /\ ProgramInit
    /\ total_questions = 1
    /\ ExtractIdle
    /\ ClassifyIdle
    /\ LoginIdle
    /\ PoolIdle

LoginCall ==
    /\ logins < MaxLogins
    /\ \E r \in LoginResponses :
         /\ login_response' = r
         /\ client' = LoginClient(client, r)
         /\ last_login' = LoginResult(r)
         /\ granted' = IF LoginOk(r) THEN r.token ELSE granted
    /\ logins' = logins + 1
    /\ UNCHANGED <<total_questions, session, pc, start_index, i, df, aliased, row,
                   submitVars, pollVars, last_status, ended, extractVars,
                   classifyVars, poolVars>>

LoginNext == LoginCall

LoginSpec == LoginInit /\ [][LoginNext]_vars

\* --------------------------------------- the bounded-concurrency mode
\* A batch of N questions and a pool of W > 1 workers, nothing done yet.
PoolInit ==
    /\ ProgramInit
    /\ total_questions = 1
    /\ ExtractIdle
    /\ ClassifyIdle
    /\ LoginIdle
    /\ pool_n \in 1 .. PoolQuestions
    /\ pool_w \in 2 .. MaxWorkers
    /\ launched = 0
    /\ worker = [w \in 1 .. MaxWorkers |-> IdleWorker]
    /\ pool_lock = 0
    /\ result_table = <<>>
    /\ processed_index_set = {}

PoolUnchanged == UNCHANGED <<programVars, extractVars, classifyVars, loginVars>>

\* The next question is handed to a free worker: at most W are in flight.
Launch(w) ==
    /\ w <= pool_w
    /\ worker[w].at = "idle"
    /\ launched < pool_n
    /\ worker' = [worker EXCEPT ![w] = [at |-> "working", q |-> launched, slot |-> 0]]
    /\ launched' = launched + 1
    /\ UNCHANGED <<pool_n, pool_w, pool_lock, result_table, processed_index_set>>
    /\ PoolUnchanged

\* The worker's question is done, with its own session: an answer, a failure
\* or a timeout, each of them one record to merge.
Completes(w) ==
    /\ worker[w].at = "working"
    /\ worker' = [worker EXCEPT ![w].at = "completed"]
    /\ UNCHANGED <<pool_n, pool_w, launched, pool_lock, result_table,
                   processed_index_set>>
    /\ PoolUnchanged

\* MayEnter without mutual exclusion.
MayEnterUnlocked(w) == TRUE

\* Mutual exclusion: a worker enters the merge only when no worker is in it.
MayEnter(w) == pool_lock = 0

\* The worker takes the lock and finds the row its record goes to, the one
\* after the last row of the table.
Acquire(w) ==
    /\ worker[w].at = "completed"
    /\ MayEnter(w)
    /\ pool_lock' = w
    /\ worker' = [worker EXCEPT ![w].at = "appending",
                                ![w].slot = Len(result_table) + 1]
    /\ UNCHANGED <<pool_n, pool_w, launched, result_table, processed_index_set>>
    /\ PoolUnchanged

\* The table with record q in row k.
WriteRow(t, k, q) ==
    IF k <= Len(t) THEN [t EXCEPT ![k] = q] ELSE Append(t, q)

\* "append result".
AppendResult(w) ==
    /\ worker[w].at = "appending"
    /\ result_table' = WriteRow(result_table, worker[w].slot, worker[w].q)
    /\ worker' = [worker EXCEPT ![w].at = "marking"]
    /\ UNCHANGED <<pool_n, pool_w, launched, pool_lock, processed_index_set>>
    /\ PoolUnchanged

\* "mark index processed", the end of the atomic unit: the lock is released
\* and the worker is free again.
MarkProcessed(w) ==
    /\ worker[w].at = "marking"
    /\ processed_index_set' = processed_index_set \cup {worker[w].q}
    /\ pool_lock' = 0
    /\ worker' = [worker EXCEPT ![w] = IdleWorker]
    /\ UNCHANGED <<pool_n, pool_w, launched, result_table>>
    /\ PoolUnchanged

PoolNext ==
    \E w \in 1 .. MaxWorkers :
        \/ Launch(w)
        \/ Completes(w)
        \/ Acquire(w)
        \/ AppendResult(w)
        \/ MarkProcessed(w)

PoolSpec == PoolInit /\ [][PoolNext]_vars

\* ================================================================ claims
\* <<0, 1, ..., k-1>>: one record per question index below k, in order.
Upto(k) == [j \in 1 .. k |-> j - 1]

Questions == 0 .. (MaxQuestions - 1)

\* A POST / a GET is sent in this step.
PostSent == pc = "submit" /\ posts' = posts + 1
GetSent ==
    /\ \/ pc = "fast" /\ ~FastTimedOut(elapsed)
       \/ pc = "steady" /\ SteadyContinues(elapsed)
    /\ pc' # "finally"

\* poll_answer raises TimeoutError in this step.
PollTimesOut ==
    /\ \/ pc = "fast" /\ FastTimedOut(elapsed)
       \/ pc = "steady" /\ ~SteadyContinues(elapsed)
    /\ pc' # "finally"

\* submit_question raises in this step (its last attempt failed).
SubmitFails == PostSent /\ retries' > max_retries

\* C1: a run from index 0 whose first login succeeds and which runs to the
\* end of its loop holds, at every question, one record per question handled
\* so far, and returns and checkpoints exactly one record per input question,
\* in order, whatever the outcome of each question.
C1_OneRecordPerQuestion ==
    /\ (start_index = 0 /\ pc \in {"loop", "submit", "submitted", "fast", "steady"})
          => df = Upto(i)
    /\ (start_index = 0 /\ pc = "save") => df = Upto(i + 1)
    /\ (start_index = 0 /\ pc = "idle" /\ ended = "normal")
          => /\ df = Upto(total_questions)
             /\ results_df = SomeDF(Upto(total_questions))
             /\ questions_processed = total_questions

C1_Witness ==
    /\ pc = "idle" /\ ended = "normal" /\ start_index = 0
    /\ total_questions = MaxQuestions
    /\ Len(df) = MaxQuestions

\* C2: after a run is interrupted with k questions checkpointed, 0 < k < N, the
\* checkpoint is the resume point k with the k records, so that
\* run_queries(questions, questions_processed) completes the batch; and a
\* resumed run that reaches the end of its loop returns one record per
\* question index, as the uninterrupted run does.
C2_IdempotentResume ==
    /\ (pc = "idle" /\ ended = "aborted" /\ i > 0 /\ i < total_questions
           /\ df = Upto(i))
          => (questions_processed = i /\ results_df = SomeDF(Upto(i)))
    /\ (pc = "idle" /\ ended = "normal" /\ start_index > 0)
          => df = Upto(total_questions)

\* C3: a failure of question i (submit_question raising after its retries,
\* poll_answer raising, extraction raising) is turned into exactly one row for
\* question i whose Answer cell holds the message, the run stays active, and
\* the step after the row is the checkpoint that moves on to index i + 1.
C3_FailureIsolated ==
    [][ /\ (SubmitFails \/ PollTimesOut
              \/ (pc = "steady" /\ pc' = "save" /\ row'.answer # "ANSWER"))
            => /\ pc' = "save"
               /\ i' = i
               /\ df' = Append(df, i)
               /\ row'.q = i
               /\ row'.answer \in {"ERROR", "TIMEOUT"}
               /\ processing_active'
        /\ (pc = "save" /\ pc' # "finally")
            => (pc' = "loop" /\ i' = i + 1 /\ processing_active' /\ df' = df)
      ]_vars

C3_Witness ==
    /\ pc = "save" /\ row = ErrorRow(i) /\ retries > max_retries
    /\ i + 1 < total_questions

\* C4: once question q is being polled it is eventually recorded, as a timeout
\* unless a complete answer came; and once question q is recorded as a timeout
\* the run eventually ends with every question recorded.
C4_TimeoutIsolation ==
    \A q \in Questions :
        /\ (pc \in {"fast", "steady"} /\ i = q)
              ~> (pc = "save" /\ i = q
                    /\ (last_status = "200c" \/ row = TimeoutRow(q)))
        /\ (pc = "save" /\ i = q /\ row = TimeoutRow(q))
              ~> (pc = "idle" /\ ended = "normal" /\ df = Upto(total_questions))

C4_Witness ==
    /\ pc = "save" /\ row = TimeoutRow(i) /\ last_status # "200c"
    /\ i + 1 < total_questions

\* C5: a request that follows a 401 response to a submit or a poll of the same
\* question is preceded by exactly one login call.
C5_ReloginAfter401 ==
    [][ (last_status = "401" /\ (PostSent \/ GetSent)) => attempt_logins' = 1 ]_vars

\* C6 (as claimed): a poll response with a status other than 200 and 202 ends
\* polling at once and the question is recorded as failed.
C6_PollErrorIsFatal ==
    [][ (GetSent /\ last_status' \in {"401", "500"})
          => (pc' = "save" /\ row' = ErrorRow(i)) ]_vars

\* C6 (amended): a poll response with a status other than 200 and 202 does not
\* end polling: the same question is still being polled after it and no row is
\* written; poll_answer ends only by a complete answer or by TimeoutError, so
\* a failed row written from polling follows a complete answer.
C6_PollErrorContinues ==
    [][ /\ (GetSent /\ last_status' \in {"401", "500"})
            => (pc' \in {"fast", "steady"} /\ i' = i /\ df' = df)
        /\ (pc \in {"fast", "steady"} /\ pc' = "save" /\ row' = ErrorRow(i))
            => last_status' = "200c"
        /\ (pc \in {"fast", "steady"} /\ pc' = "save" /\ last_status' # "200c")
            => row' = TimeoutRow(i)
      ]_vars

C6_Witness ==
    /\ pc = "steady" /\ last_status \in {"401", "500"}

\* C7: a run whose first login fails ends at once: the checkpoint and the
\* processing_active flag are unchanged, no row is appended and no request is
\* sent; and a login that fails later, inside the loop, does not leave the loop.
C7_FirstLoginFailureAborts ==
    [][ /\ ((RunButton \/ ResumeButton) /\ last_login' = "fail")
            => /\ pc' = "idle"
               /\ UNCHANGED <<results_df, questions_processed, processing_active>>
               /\ posts' = posts
               /\ row' = row
        /\ (InLoop /\ last_login' = "fail" /\ ended' = ended)
            => (pc' \in {"loop", "submit", "submitted", "fast", "steady", "save"}
                  /\ processing_active')
      ]_vars

C7_Witness ==
    /\ pc = "idle" /\ ended = "login_failed"
    /\ questions_processed > 0 /\ questions_processed < total_questions
    /\ results_df.present

\* C8: when poll_answer ends by TimeoutError the row written for the question
\* is the timeout row (TIMEOUT, Skip), not the error row (ERROR, Fail).
C8_TimeoutIsDistinct ==
    [][ PollTimesOut
          => (row' = TimeoutRow(i) /\ row' # ErrorRow(i) /\ df' = Append(df, i)) ]_vars

C8_Witness ==
    /\ pc = "save" /\ row = TimeoutRow(i) /\ elapsed >= TimeoutTicks

\* C9: submit_question issues at most max_retries + 1 POSTs; while it loops
\* every POST so far has failed and the last backoff was 2 s times the number
\* of failures; it returns after the first 200 and raises after failure
\* max_retries + 1.
C9_SubmitBounded ==
    /\ posts <= max_retries + 1
    /\ pc = "submit"
          => (retries <= max_retries /\ posts = retries
                /\ slept = BackoffBase * retries)
    /\ pc = "submitted" => (last_status = "200" /\ posts = retries + 1)
    /\ (pc = "save" /\ retries > 0)
          => (posts = max_retries + 1 /\ retries = max_retries + 1
                /\ row = ErrorRow(i))

C9_Witness ==
    /\ pc = "save" /\ posts = max_retries + 1 /\ row = ErrorRow(i)

\* C10 (as claimed): a 401 on the first attempt is not counted as a retry.
C10_First401IsFree ==
    (pc = "submit" /\ posts = 1 /\ last_status = "401") => retries = 0

\* C10 (amended): a 401 on the first attempt is counted as the first retry,
\* is followed by the 2 s backoff, and the resubmission is preceded by exactly
\* one login call; at most max_retries POSTs follow it.
C10_First401CountsAsRetry ==
    /\ [](/\ (pc = "submit" /\ posts = 1 /\ last_status = "401")
               => (retries = 1 /\ slept = BackoffBase)
           /\ posts <= max_retries + 1)
    /\ [][ (pc = "submit" /\ posts = 1 /\ last_status = "401" /\ posts' = 2)
            => attempt_logins' = 1 ]_vars

C10_Witness ==
    /\ pc = "submit" /\ posts = 1 /\ last_status = "401"
    /\ retries = 1 /\ slept = BackoffBase

\* C11: in submit_question every retry (an attempt after a failed POST) is
\* preceded by a login call made after that failed POST, and the first
\* attempt is preceded by a login call exactly when check_session_age finds
\* the session older than max_age.
C11_RetryReauthenticates ==
    posts >= 1 =>
        IF posts >= 2
        THEN attempt_logins >= 1
        ELSE (attempt_logins >= 1) <=> session_old

\* The second POST of a question has been sent, after a login that failed.
C11_Witness ==
    /\ pc = "submitted"
    /\ posts = 2
    /\ attempt_logins = 1
    /\ last_login = "fail"
    /\ ~session_old

\* C12: poll_answer returns an answer only on a poll that came back with
\* HTTP 200 and a first answer whose text is present and non-empty; a 202, or
\* a 200 without answers or with an absent or empty text, is not an error: no
\* row is written and polling goes on.
C12_CompleteOnlyOnAnswerText ==
    [][GetSent =>
        /\ pc' = "save" =>
              /\ GetStatus(last_status') = "200"
              /\ GetData(last_status').has_answers
              /\ Len(GetData(last_status').answers) > 0
              /\ GetData(last_status').answers[1].has_text
              /\ GetData(last_status').answers[1].text # ""
        /\ last_status' \in {"202", "200e", "200t", "200l", "200n"} =>
              /\ pc' \in {"fast", "steady"}
              /\ df' = df
              /\ row' = row
              /\ ended' = ended]_vars

\* A 200 with an empty text came back in the steady phase, and polling goes on.
C12_Witness ==
    /\ pc = "steady"
    /\ last_status = "200e"
    /\ n = FastPolls
    /\ elapsed < TimeoutTicks

\* The fast phase uses up its last iteration without a 200 in this step.
FastExhausted ==
    /\ pc = "fast"
    /\ GetSent
    /\ n' = FastPolls

HasAnswer(data) == data.has_answers /\ Len(data.answers) > 0

GivesText(element) ==
    element.type = "str" \/ (element.type = "dict" /\ element.has_text)

\* The first k texts, one "\n" between two of them.
RECURSIVE NewlineJoined(_, _)
NewlineJoined(texts, k) ==
    IF k = 0 THEN <<>>
    ELSE IF k = 1 THEN texts[1]
    ELSE NewlineJoined(texts, k - 1) \o <<"\n">> \o texts[k]

\* C15: the insights extracted are the insights field itself when it is a
\* string; when it is a list, the newline-join, in order, of its string
\* elements and of the text of its mapping elements, every other element
\* skipped; and "" for any other shape (missing, empty list, mapping, number).
C15_InsightsExtraction ==
    (extracted.done /\ ~extracted.raised /\ HasAnswer(response_data)) =>
        LET answer == response_data.answers[1]
            given == SelectSeq(answer.insights.items, GivesText)
        IN  extracted.insights =
                IF ~answer.has_insights THEN <<>>
                ELSE IF answer.insights.type = "str" THEN answer.insights.text
                ELSE IF answer.insights.type = "list"
                     THEN NewlineJoined([k \in 1 .. Len(given) |-> given[k].text],
                                        Len(given))
                     ELSE <<>>

\* A list of a string, a number and a mapping with a text gave the two texts,
\* newline-joined.
C15_Witness ==
    /\ extracted.done
    /\ HasAnswer(response_data)
    /\ response_data.answers[1].has_insights
    /\ response_data.answers[1].insights.type = "list"
    /\ Len(response_data.answers[1].insights.items) = 3
    /\ response_data.answers[1].insights.items[1].type = "str"
    /\ response_data.answers[1].insights.items[2].type = "int"
    /\ response_data.answers[1].insights.items[3].type = "dict"
    /\ extracted.insights = <<"a", "\n", "b">>

\* Some pattern of the list matches the text.
SomeMatch(patterns, s) == \E k \in 1 .. Len(patterns) : search(patterns[k], s)

\* C16: for a text of at least 10 characters after trimming, the result is
\* (8.0, Very Complex SQL) if any very-complex pattern matches, whatever else
\* matches; else (5.0, Complex SQL) if any complex pattern matches; else
\* (3.0, Simple SQL): it depends on the highest tier matched only.
C16_TierPriority ==
    (calls >= 1 /\ Len(strip(sql_query)) >= 10) =>
        complexity =
            IF SomeMatch(very_complex_patterns, lower(sql_query)) THEN VeryComplexSql
            ELSE IF SomeMatch(complex_patterns, lower(sql_query)) THEN ComplexSql
            ELSE SimpleSql

\* A text of at least 10 characters matched by a very-complex and by a complex
\* pattern has been classified Very Complex.
C16_Witness ==
    /\ calls >= 1
    /\ Len(strip(sql_query)) >= 10
    /\ SomeMatch(very_complex_patterns, lower(sql_query))
    /\ SomeMatch(complex_patterns, lower(sql_query))
    /\ complexity = VeryComplexSql

\* C17: analyze_sql_complexity returns (0.5, No SQL) for the empty text and
\* for any text shorter than 10 characters after trimming, (3.0, Simple SQL),
\* (5.0, Complex SQL) and (8.0, Very Complex SQL) for the three pinned texts,
\* and the same value at every call for the same text.
C17_PinnedValues ==
    [][calls' = calls + 1 =>
        /\ Len(strip(sql_query)) < 10 => complexity' = NoSql
        /\ sql_query = PinnedSimple => complexity' = SimpleSql
        /\ sql_query = PinnedComplex => complexity' = ComplexSql
        /\ sql_query = PinnedVeryComplex => complexity' = VeryComplexSql
        /\ calls >= 1 => complexity' = complexity]_vars

\* The pinned complex text has been classified twice.
C17_Witness ==
    /\ calls >= 2
    /\ sql_query = PinnedComplex
    /\ complexity = ComplexSql

\* C18: in the sequential mode the table preserves submission order: during
\* and after a run from index 0, and during and after a resume from a
\* checkpoint, row j of run_queries' table and of the checkpointed table is
\* the record of question j, for every j.
C18_SubmissionOrder ==
    /\ \A j \in 1 .. Len(df) : df[j] = j - 1
    /\ \A j \in 1 .. Len(results_df.rows) : results_df.rows[j] = j - 1

\* C19: within one run of run_queries questions_processed never decreases
\* from one checkpoint write to the next (the write after each question, and
\* the final write of the finally block): once the run has written, or when
\* it resumed from a checkpoint, no write lowers the count.
C19_ProgressMonotonic ==
    [][(pc \in {"save", "finally"} /\ (i > start_index \/ start_index > 0)) =>
          questions_processed' >= questions_processed]_vars

\* A resumed run wrote the checkpoint of its questions and then the final one.
C19_Witness ==
    /\ pc = "idle"
    /\ ended = "normal"
    /\ start_index = 1
    /\ i = 3
    /\ questions_processed = 3
    /\ results_df.rows = Upto(3)

\* C20: a re-authentication that fails never fails its caller: in
\* submit_question the POST of the attempt is still sent; at the periodic
\* refresh the question is still submitted; after a timeout or error row the
\* row is checkpointed and the loop goes on to the next question; the batch
\* stays active.
C20_FailedReauthNeverFails ==
    [][/\ (pc = "submit" /\ pc' \in {"submit", "submitted"} /\ last_login' = "fail") =>
             posts' = posts + 1
       /\ (pc = "submit" /\ attempt_logins' = 2) => posts' = posts + 1
       /\ (pc = "loop" /\ i < total_questions /\ pc' # "finally" /\ last_login' = "fail") =>
             /\ pc' = "submit"
             /\ i' = i
             /\ df' = df
             /\ processing_active'
             /\ ended' = ended
       /\ (row' # row /\ row' # NoRow /\ last_login' = "fail") =>
             /\ pc' = "save"
             /\ i' = i
             /\ processing_active'
             /\ ended' = ended
       /\ (pc = "save" /\ last_login = "fail" /\ pc' # "finally") =>
             /\ pc' = "loop"
             /\ i' = i + 1
             /\ questions_processed' = i + 1
             /\ processing_active']_vars

\* The session was old, check_session_age's refresh and the refresh after it
\* both failed, and the POST was sent and accepted.
C20_Witness ==
    /\ pc = "submitted"
    /\ session_old
    /\ attempt_logins = 2
    /\ last_login = "fail"
    /\ posts = 1
    /\ last_status = "200"

\* C21: login reports success if and only if the login request came back
\* with a success status and a non-empty token in X-MSTR-AuthToken; an error
\* status, a network exception, a missing or an empty token are reported as
\* a failure.
C21_LoginSuccessIffToken ==
    logins >= 1 =>
        (last_login = "ok" <=>
            /\ login_response.status = "2xx"
            /\ login_response.token # "None"
            /\ login_response.token # "")

\* A success status with an empty token was reported as a failure, after a
\* login that succeeded.
C21_Witness ==
    /\ logins >= 2
    /\ granted \in Tokens
    /\ login_response = [status |-> "2xx", token |-> ""]
    /\ last_login = "fail"

\* C25 (as amended): after every login or refresh attempt the token attached
\* to the session headers is the token of the most recent successful login, a
\* failed login leaves the header token as it was, and whenever auth_token is
\* neither null nor empty it equals the header token.
C25_HeaderIsLatestToken ==
    [][logins' = logins + 1 =>
          /\ client'.header = granted'
          /\ last_login' = "fail" => client'.header = client.header
          /\ client'.auth_token \notin {"None", ""} =>
                client'.auth_token = client'.header]_vars

\* A login failed after one that succeeded, and the header token is still the
\* token of the one that succeeded.
C25_Witness ==
    /\ logins >= 2
    /\ last_login = "fail"
    /\ granted \in Tokens
    /\ client.header = granted

\* C25 as stated: the same, with auth_token equal to the header token whenever
\* it is non-null.
C25_TokenFieldEqualsHeader ==
    [][logins' = logins + 1 =>
          /\ client'.header = granted'
          /\ last_login' = "fail" => client'.header = client.header
          /\ client'.auth_token # "None" =>
                client'.auth_token = client'.header]_vars

\* C23: every checkpoint run_queries writes, the one after each question and
\* the final one of the finally block, stores a processed count between 0 and
\* N that is the number of rows of the table stored with it; so a positive
\* questions_processed comes with a table of exactly that many rows.
C23_CheckpointCountIsRowCount ==
    [][ (SaveCheckpoint \/ Finally)
          => /\ questions_processed' \in 0..total_questions
             /\ results_df'.present
             /\ Len(results_df'.rows) = questions_processed' ]_vars

\* C26: processing_active is true only while run_queries is between its
\* successful login and its finally block: it becomes true only by a login
\* that succeeded, it is true all the way through the loop, and it is false
\* whenever run_queries is not running, so Run or Resume is always offered
\* again.
C26_ActiveOnlyWhileRunning ==
    /\ [](processing_active <=> (InLoop \/ pc = "finally"))
    /\ [][ /\ (~processing_active /\ processing_active')
               => (pc = "idle" /\ pc' = "loop" /\ last_login' = "ok")
           /\ (pc # "idle" /\ pc' = "idle") => ~processing_active'
           /\ (RunButton \/ ResumeButton) => ~processing_active ]_vars

\* A second run was started after a run that was interrupted with its finally
\* block cut, and has ended too.
C26_Witness ==
    /\ pc = "idle"
    /\ ~processing_active
    /\ start_index > 0
    /\ ended \in {"aborted", "normal"}

\* C24: poll_answer terminates whatever the server answers: a question that is
\* being polled is eventually recorded; the fast phase makes a bounded number
\* of requests and every further iteration of the steady phase advances the
\* clock; and polling ends in one of two ways only, the TimeoutError once the
\* elapsed time has reached the timeout, or a complete answer returned from the
\* steady phase.
C24_PollTerminates ==
    /\ (pc \in {"fast", "steady"}) ~> (pc = "save")
    /\ [][ /\ (pc = "fast" /\ pc' = "fast") => (n' = n + 1 /\ n' < FastPolls)
           /\ (pc = "steady" /\ pc' = "steady") => elapsed' > elapsed
           /\ (pc \in {"fast", "steady"} /\ pc' \notin {"fast", "steady"})
                => /\ pc' = "save"
                   /\ \/ /\ row' = TimeoutRow(i)
                         /\ elapsed >= TimeoutTicks
                         /\ UNCHANGED <<elapsed, last_status>>
                      \/ /\ pc = "steady"
                         /\ elapsed < TimeoutTicks
                         /\ Complete(last_status')
                         /\ row' \in {SuccessRow(i), ErrorRow(i)}
         ]_vars

\* The server never gave a complete answer, only errors, and the polling of
\* the question ended by the timeout.
C24_Witness ==
    /\ pc = "save"
    /\ row = TimeoutRow(i)
    /\ last_status \in {"401", "500", "exc"}
    /\ elapsed >= TimeoutTicks
    /\ n = FastPolls

\* The batch is over: every question was handed out and every worker is free.
PoolDone ==
    /\ launched = pool_n
    /\ \A w \in 1 .. MaxWorkers : worker[w].at = "idle"

\* C22: N questions run by W > 1 workers give a table of N records, no two
\* of them for the same question index, every index marked processed; at most
\* one worker is between its append and its mark, and whenever none is, the
\* table holds exactly the indices marked processed.
C22_ConcurrencySafety ==
    /\ \A a, b \in 1 .. Len(result_table) :
          a # b => result_table[a] # result_table[b]
    /\ Cardinality({w \in 1 .. MaxWorkers :
                      worker[w].at \in {"appending", "marking"}}) <= 1
    /\ pool_lock = 0 =>
          {result_table[a] : a \in 1 .. Len(result_table)} = processed_index_set
    /\ PoolDone =>
          /\ Len(result_table) = pool_n
          /\ processed_index_set = 0 .. (pool_n - 1)

\* A batch run by more than one worker is over, its records merged in an
\* order other than the order of submission.
C22_Witness ==
    /\ PoolDone
    /\ pool_w >= 2
    /\ pool_n = PoolQuestions
    /\ Len(result_table) = pool_n
    /\ result_table[1] # 0
====
